---------------------------- MODULE Spec2Model ----------------------------
(***************************************************************************)
(* Model of src/main.py: a one-shot script that builds a JSON payload from *)
(* the process environment, signs it with HMAC-SHA256, POSTs it once and   *)
(* validates the JSON response.                                            *)
(*                                                                         *)
(* Text is modelled as a sequence of Unicode code points and bytes as a    *)
(* sequence of integers 0..255, so that formatting, escaping, UTF-8        *)
(* encoding/decoding and JSON parsing are computed, not assumed.           *)
(***************************************************************************)
EXTENDS Integers, Sequences, FiniteSets, TLC

VARIABLES
    env,        \* os.environ: a function from the names that are set to text
    now,        \* the instant datetime.now(timezone.utc) returns
    pc,         \* position of main()
    secret,     \* main: secret
    payload,    \* main: payload (dict, as <<key, value>> pairs in insertion order)
    body_str,   \* main: body_str
    body_bytes, \* main: body_bytes
    signature,  \* main: signature
    wire,       \* the requests put on the wire by urlopen
    reply,      \* what urlopen met: the server's answer or the failure
    resp_body,  \* main: resp_body
    parsed,     \* main: parsed
    stdout,     \* lines printed to standard output
    stderr,     \* lines printed to standard error
    exit_code,  \* the process exit status, -1 while running
    stages      \* history: the stages completed so far, in order

vars == <<env, now, pc, secret, payload, body_str, body_bytes, signature,
          wire, reply, resp_body, parsed, stdout, stderr, exit_code, stages>>

-----------------------------------------------------------------------------
(* Bounds of the model *)

\* longest environment value explored by the serializer specification
MaxLen == 2

-----------------------------------------------------------------------------
(* Text constants, as code points *)

K_timestamp == <<116, 105, 109, 101, 115, 116, 97, 109, 112>>   \* "timestamp"
K_name == <<110, 97, 109, 101>>   \* "name"
K_email == <<101, 109, 97, 105, 108>>   \* "email"
K_resume_link == <<114, 101, 115, 117, 109, 101, 95, 108, 105, 110, 107>>   \* "resume_link"
K_repository_link == <<114, 101, 112, 111, 115, 105, 116, 111, 114, 121, 95, 108, 105, 110, 107>>   \* "repository_link"
K_action_run_link == <<97, 99, 116, 105, 111, 110, 95, 114, 117, 110, 95, 108, 105, 110, 107>>   \* "action_run_link"
DefaultName == <<68, 111, 110, 111, 118, 97, 110, 32, 80, 105, 112, 101, 114>>   \* "Donovan Piper"
DefaultEmail == <<100, 111, 46, 112, 105, 112, 101, 114, 46, 101, 110, 103, 64, 111, 117, 116, 108, 111, 111, 107, 46, 99, 111, 109>>   \* "do.piper.eng@outlook.com"
DefaultResumeLink == <<104, 116, 116, 112, 115, 58, 47, 47, 100, 111, 110, 111, 118, 97, 110, 45, 112, 105, 112, 101, 114, 46, 110, 101, 116, 108, 105, 102, 121, 46, 97, 112, 112, 47>>   \* "https://donovan-piper.netlify.app/"
DefaultRepositoryLink == <<104, 116, 116, 112, 115, 58, 47, 47, 103, 105, 116, 104, 117, 98, 46, 99, 111, 109, 47, 110, 111, 118, 97, 110, 99, 111, 114, 101>>   \* "https://github.com/novancore"
UtcOffsetText == <<43, 48, 48, 58, 48, 48>>   \* "+00:00"
ZuluText == <<90>>   \* "Z"
K_success == <<115, 117, 99, 99, 101, 115, 115>>   \* "success"
K_receipt == <<114, 101, 99, 101, 105, 112, 116>>   \* "receipt"
TxtTrue == <<116, 114, 117, 101>>   \* "true"
TxtFalse == <<102, 97, 108, 115, 101>>   \* "false"
TxtNull == <<110, 117, 108, 108>>   \* "null"
TxtNaN == <<78, 97, 78>>   \* "NaN"
TxtInfinity == <<73, 110, 102, 105, 110, 105, 116, 121>>   \* "Infinity"

\* Python's None, and the value of a text local that is not bound yet
None == <<-1>>

\* the value of a structured local that is not bound yet
Unbound == [unbound |-> TRUE]

-----------------------------------------------------------------------------
(* Text helpers: str methods and comparisons, on code-point sequences *)

\* s[i:] with a 1-based i
Drop(s, i) == SubSeq(s, i, Len(s))

\* s.startswith(p)
StartsWith(s, p) == Len(p) <= Len(s) /\ SubSeq(s, 1, Len(p)) = p

\* a < b for str: code-point lexicographic order
RECURSIVE StrLess(_, _)
StrLess(a, b) ==
    IF b = <<>> THEN FALSE
    ELSE IF a = <<>> THEN TRUE
    ELSE IF Head(a) # Head(b) THEN Head(a) < Head(b)
    ELSE StrLess(Tail(a), Tail(b))

\* s.replace(old, new), for a non-empty old: every non-overlapping
\* occurrence, leftmost first
RECURSIVE StrReplace(_, _, _)
StrReplace(s, old, new) ==
    IF Len(s) < Len(old) THEN s
    ELSE IF StartsWith(s, old) THEN new \o StrReplace(Drop(s, Len(old) + 1), old, new)
    ELSE <<Head(s)>> \o StrReplace(Tail(s), old, new)

\* "%0<width>d" % n
RECURSIVE Digits(_, _)
Digits(n, width) ==
    IF width = 0 THEN <<>> ELSE Digits(n \div 10, width - 1) \o <<48 + (n % 10)>>

IsDigit(c) == c >= 48 /\ c <= 57

\* one lowercase hexadecimal digit
HexDigit(d) == IF d < 10 THEN 48 + d ELSE 87 + d

-----------------------------------------------------------------------------
(* iso8601_timestamp, src/main.py:12-15 *)

\* datetime.isoformat() of an aware datetime in UTC: the fraction is written
\* with six digits, and only when the microsecond field is not zero
isoformat(dt) ==
    Digits(dt.year, 4) \o <<45>> \o Digits(dt.month, 2) \o <<45>> \o Digits(dt.day, 2)
    \o <<84>>
    \o Digits(dt.hour, 2) \o <<58>> \o Digits(dt.minute, 2) \o <<58>> \o Digits(dt.second, 2)
    \o (IF dt.microsecond # 0 THEN <<46>> \o Digits(dt.microsecond, 6) ELSE <<>>)
    \o UtcOffsetText

iso8601_timestamp(t) ==
    StrReplace(isoformat([t EXCEPT !.microsecond = (t.microsecond \div 1000) * 1000]),
               UtcOffsetText, ZuluText)

-----------------------------------------------------------------------------
(* str.encode("utf-8") and bytes.decode("utf-8") *)

\* the UTF-8 bytes of one code point; lone surrogates have none
Utf8OfCodePoint(c) ==
    IF c < 128 THEN <<c>>
    ELSE IF c < 2048 THEN <<192 + (c \div 64), 128 + (c % 64)>>
    ELSE IF c < 65536 THEN <<224 + (c \div 4096), 128 + ((c \div 64) % 64), 128 + (c % 64)>>
    ELSE <<240 + (c \div 262144), 128 + ((c \div 4096) % 64),
           128 + ((c \div 64) % 64), 128 + (c % 64)>>

IsSurrogate(c) == c >= 55296 /\ c <= 57343

\* s.encode("utf-8") raises UnicodeEncodeError
Utf8EncodeRaises(s) == \E i \in 1..Len(s) : IsSurrogate(s[i])

\* s.encode("utf-8"), when it does not raise (computed by halves)
RECURSIVE Utf8Encode(_)
Utf8Encode(s) ==
    IF s = <<>> THEN <<>>
    ELSE IF Len(s) = 1 THEN Utf8OfCodePoint(s[1])
    ELSE Utf8Encode(SubSeq(s, 1, Len(s) \div 2))
         \o Utf8Encode(SubSeq(s, Len(s) \div 2 + 1, Len(s)))

IsCont(b) == b >= 128 /\ b <= 191

\* b.decode("utf-8"), strict: [ok, s]
RECURSIVE Utf8DecodeFrom(_, _, _)
Utf8DecodeFrom(b, i, acc) ==
    IF i > Len(b) THEN [ok |-> TRUE, s |-> acc]
    ELSE LET b0 == b[i]
             b1 == IF i + 1 <= Len(b) THEN b[i + 1] ELSE -1
             b2 == IF i + 2 <= Len(b) THEN b[i + 2] ELSE -1
             b3 == IF i + 3 <= Len(b) THEN b[i + 3] ELSE -1
         IN  IF b0 < 128 THEN Utf8DecodeFrom(b, i + 1, Append(acc, b0))
             ELSE IF b0 >= 194 /\ b0 <= 223 /\ IsCont(b1)
                  THEN Utf8DecodeFrom(b, i + 2, Append(acc, (b0 - 192) * 64 + (b1 - 128)))
             ELSE IF /\ b0 >= 224 /\ b0 <= 239 /\ IsCont(b1) /\ IsCont(b2)
                     /\ (b0 = 224 => b1 >= 160)
                     /\ (b0 = 237 => b1 <= 159)
                  THEN Utf8DecodeFrom(b, i + 3,
                          Append(acc, (b0 - 224) * 4096 + (b1 - 128) * 64 + (b2 - 128)))
             ELSE IF /\ b0 >= 240 /\ b0 <= 244 /\ IsCont(b1) /\ IsCont(b2) /\ IsCont(b3)
                     /\ (b0 = 240 => b1 >= 144)
                     /\ (b0 = 244 => b1 <= 143)
                  THEN Utf8DecodeFrom(b, i + 4,
                          Append(acc, (b0 - 240) * 262144 + (b1 - 128) * 4096
                                      + (b2 - 128) * 64 + (b3 - 128)))
             ELSE [ok |-> FALSE, s |-> <<>>]

\* the same decoding of b[lo..hi], computed by halves: a character starts
\* at every byte that is not a continuation byte, and no character has more
\* than three continuation bytes
RECURSIVE Utf8DecodeRange(_, _, _)
Utf8DecodeRange(b, lo, hi) ==
    IF hi - lo < 16 THEN Utf8DecodeFrom(SubSeq(b, lo, hi), 1, <<>>)
    ELSE LET mid  == (lo + hi) \div 2
             cuts == {c \in mid..(mid + 3) : ~IsCont(b[c])}
         IN  IF cuts = {} THEN [ok |-> FALSE, s |-> <<>>]
             ELSE LET cut == CHOOSE c \in cuts : \A d \in cuts : c <= d
                      l   == Utf8DecodeRange(b, lo, cut - 1)
                      r   == Utf8DecodeRange(b, cut, hi)
                  IN  IF l.ok /\ r.ok THEN [ok |-> TRUE, s |-> l.s \o r.s]
                      ELSE [ok |-> FALSE, s |-> <<>>]

Utf8Decode(b) == Utf8DecodeRange(b, 1, Len(b))

-----------------------------------------------------------------------------
(* json.dumps of a dict of str to str *)

\* json.encoder.ESCAPE_DCT, applied by encode_basestring (ensure_ascii=False)
EscapeChar(c) ==
    IF c = 34 THEN <<92, 34>>
    ELSE IF c = 92 THEN <<92, 92>>
    ELSE IF c = 10 THEN <<92, 110>>
    ELSE IF c = 13 THEN <<92, 114>>
    ELSE IF c = 9 THEN <<92, 116>>
    ELSE IF c = 8 THEN <<92, 98>>
    ELSE IF c = 12 THEN <<92, 102>>
    ELSE IF c < 32 THEN <<92, 117, 48, 48, HexDigit(c \div 16), HexDigit(c % 16)>>
    ELSE <<c>>

RECURSIVE EscapeAll(_)
EscapeAll(s) ==
    IF s = <<>> THEN <<>>
    ELSE IF Len(s) = 1 THEN EscapeChar(s[1])
    ELSE EscapeAll(SubSeq(s, 1, Len(s) \div 2)) \o EscapeAll(SubSeq(s, Len(s) \div 2 + 1, Len(s)))

encode_basestring(s) == <<34>> \o EscapeAll(s) \o <<34>>

\* sorted(dct.items()): the keys of a dict are distinct, so the item at
\* place i is the one with exactly i - 1 smaller keys
SortItems(items) ==
    [i \in 1..Len(items) |->
        items[CHOOSE j \in 1..Len(items) :
                 Cardinality({k \in 1..Len(items) : StrLess(items[k][1], items[j][1])})
                     = i - 1]]

RECURSIVE JoinItems(_, _, _)
JoinItems(items, item_sep, key_sep) ==
    IF items = <<>> THEN <<>>
    ELSE encode_basestring(Head(items)[1]) \o key_sep \o encode_basestring(Head(items)[2])
         \o (IF Len(items) > 1 THEN item_sep ELSE <<>>)
         \o JoinItems(Tail(items), item_sep, key_sep)

\* json.dumps(dct, separators=(item_sep, key_sep), sort_keys=sort_keys,
\*            ensure_ascii=False)
json_dumps(dct, item_sep, key_sep, sort_keys) ==
    <<123>> \o JoinItems(IF sort_keys THEN SortItems(dct) ELSE dct, item_sep, key_sep)
    \o <<125>>

-----------------------------------------------------------------------------
(* json.loads: values are records tagged by t, "object" with its members   *)
(* in text order, "array", "string", "number", "true", "false", "null"     *)

JsonFail == [ok |-> FALSE, v |-> [t |-> "null"], i |-> 0, ws |-> 0]

At(s, i) == IF i >= 1 /\ i <= Len(s) THEN s[i] ELSE -1

\* json.decoder.WHITESPACE
RECURSIVE SkipWs(_, _)
SkipWs(s, i) == IF At(s, i) \in {32, 9, 10, 13} THEN SkipWs(s, i + 1) ELSE i

RECURSIVE SkipDigits(_, _)
SkipDigits(s, i) == IF IsDigit(At(s, i)) THEN SkipDigits(s, i + 1) ELSE i

HexVal(c) ==
    IF c >= 48 /\ c <= 57 THEN c - 48
    ELSE IF c >= 97 /\ c <= 102 THEN c - 87
    ELSE IF c >= 65 /\ c <= 70 THEN c - 55
    ELSE -1

\* the value of the four hexadecimal digits at s[i..i+3], or -1
Hex4(s, i) ==
    IF \A k \in 0..3 : HexVal(At(s, i + k)) >= 0
    THEN HexVal(s[i]) * 4096 + HexVal(s[i + 1]) * 256 + HexVal(s[i + 2]) * 16 + HexVal(s[i + 3])
    ELSE -1

\* json.decoder.BACKSLASH
Unescape(e) ==
    IF e = 98 THEN 8
    ELSE IF e = 102 THEN 12
    ELSE IF e = 110 THEN 10
    ELSE IF e = 114 THEN 13
    ELSE IF e = 116 THEN 9
    ELSE e

\* json.decoder.scanstring (strict), from the character after the opening quote
RECURSIVE ScanString(_, _, _)
ScanString(s, i, acc) ==
    IF i > Len(s) THEN [ok |-> FALSE, str |-> <<>>, i |-> 0]
    ELSE LET c == s[i] IN
         IF c = 34 THEN [ok |-> TRUE, str |-> acc, i |-> i + 1]
         ELSE IF c < 32 THEN [ok |-> FALSE, str |-> <<>>, i |-> 0]
         ELSE IF c # 92 THEN ScanString(s, i + 1, Append(acc, c))
         ELSE LET e == At(s, i + 1) IN
              IF e = 117
              THEN LET u  == Hex4(s, i + 2)
                       lo == IF At(s, i + 6) = 92 /\ At(s, i + 7) = 117
                             THEN Hex4(s, i + 8) ELSE -1
                   IN  IF u < 0 THEN [ok |-> FALSE, str |-> <<>>, i |-> 0]
                       ELSE IF u >= 55296 /\ u <= 56319 /\ lo >= 56320 /\ lo <= 57343
                            THEN ScanString(s, i + 12,
                                    Append(acc, 65536 + (u - 55296) * 1024 + (lo - 56320)))
                       ELSE ScanString(s, i + 6, Append(acc, u))
              ELSE IF e \in {34, 92, 47, 98, 102, 110, 114, 116}
                   THEN ScanString(s, i + 2, Append(acc, Unescape(e)))
              ELSE [ok |-> FALSE, str |-> <<>>, i |-> 0]

\* json.scanner.NUMBER_RE matched at i: the index after the match, 0 if none
MatchNumber(s, i) ==
    LET j0 == IF At(s, i) = 45 THEN i + 1 ELSE i
        j1 == IF At(s, j0) = 48 THEN j0 + 1
              ELSE IF IsDigit(At(s, j0)) THEN SkipDigits(s, j0)
              ELSE 0
        j2 == IF At(s, j1) = 46 /\ IsDigit(At(s, j1 + 1)) THEN SkipDigits(s, j1 + 1) ELSE j1
        k  == IF At(s, j2 + 1) \in {43, 45} THEN j2 + 2 ELSE j2 + 1
        j3 == IF At(s, j2) \in {101, 69} /\ IsDigit(At(s, k)) THEN SkipDigits(s, k) ELSE j2
    IN  IF j1 = 0 THEN 0 ELSE j3

RECURSIVE ParseValue(_, _)
RECURSIVE ParseMembers(_, _, _, _)
RECURSIVE ParseElements(_, _, _, _)

\* json.scanner.py_make_scanner._scan_once at index i
ParseValue(s, i) ==
    LET c == At(s, i)
        n == MatchNumber(s, i)
        lit(text, tag) ==
            IF StartsWith(Drop(s, i), text)
            THEN [ok |-> TRUE, v |-> [t |-> tag], i |-> i + Len(text), ws |-> 0]
            ELSE JsonFail
        const(text) ==
            IF StartsWith(Drop(s, i), text)
            THEN [ok |-> TRUE, v |-> [t |-> "number", lexeme |-> text],
                  i |-> i + Len(text), ws |-> 0]
            ELSE JsonFail
    IN  IF c = 34
        THEN LET r == ScanString(s, i + 1, <<>>) IN
             IF r.ok THEN [ok |-> TRUE, v |-> [t |-> "string", s |-> r.str], i |-> r.i, ws |-> 0]
             ELSE JsonFail
        ELSE IF c = 123
        THEN LET j == SkipWs(s, i + 1) IN
             IF At(s, j) = 125
             THEN [ok |-> TRUE, v |-> [t |-> "object", members |-> <<>>],
                   i |-> j + 1, ws |-> j - (i + 1)]
             ELSE IF At(s, j) = 34 THEN ParseMembers(s, j, <<>>, j - (i + 1))
             ELSE JsonFail
        ELSE IF c = 91
        THEN LET j == SkipWs(s, i + 1) IN
             IF At(s, j) = 93
             THEN [ok |-> TRUE, v |-> [t |-> "array", items |-> <<>>],
                   i |-> j + 1, ws |-> j - (i + 1)]
             ELSE ParseElements(s, j, <<>>, j - (i + 1))
        ELSE IF c = 110 THEN lit(TxtNull, "null")
        ELSE IF c = 116 THEN lit(TxtTrue, "true")
        ELSE IF c = 102 THEN lit(TxtFalse, "false")
        ELSE IF n # 0
        THEN [ok |-> TRUE, v |-> [t |-> "number", lexeme |-> SubSeq(s, i, n - 1)],
              i |-> n, ws |-> 0]
        ELSE IF c = 78 THEN const(TxtNaN)
        ELSE IF c = 73 THEN const(TxtInfinity)
        ELSE IF c = 45 THEN const(<<45>> \o TxtInfinity)
        ELSE JsonFail

\* json.decoder.JSONObject from the opening quote of a key at index i
ParseMembers(s, i, acc, ws) ==
    LET key == ScanString(s, i + 1, <<>>)
        j1  == SkipWs(s, key.i)
        j2  == SkipWs(s, j1 + 1)
        val == ParseValue(s, j2)
        j3  == SkipWs(s, val.i)
        j4  == SkipWs(s, j3 + 1)
        acc2 == Append(acc, [k |-> key.str, v |-> val.v])
        ws2  == ws + (j1 - key.i) + (j2 - (j1 + 1)) + val.ws + (j3 - val.i)
    IN  IF ~key.ok THEN JsonFail
        ELSE IF At(s, j1) # 58 THEN JsonFail
        ELSE IF ~val.ok THEN JsonFail
        ELSE IF At(s, j3) = 125
             THEN [ok |-> TRUE, v |-> [t |-> "object", members |-> acc2],
                   i |-> j3 + 1, ws |-> ws2]
        ELSE IF At(s, j3) = 44 /\ At(s, j4) = 34
             THEN ParseMembers(s, j4, acc2, ws2 + (j4 - (j3 + 1)))
        ELSE JsonFail

\* json.decoder.JSONArray from the first character of an element at index i
ParseElements(s, i, acc, ws) ==
    LET val == ParseValue(s, i)
        j1  == SkipWs(s, val.i)
        j2  == SkipWs(s, j1 + 1)
        acc2 == Append(acc, val.v)
        ws2  == ws + val.ws + (j1 - val.i)
    IN  IF ~val.ok THEN JsonFail
        ELSE IF At(s, j1) = 93
             THEN [ok |-> TRUE, v |-> [t |-> "array", items |-> acc2],
                   i |-> j1 + 1, ws |-> ws2]
        ELSE IF At(s, j1) = 44 THEN ParseElements(s, j2, acc2, ws2 + (j2 - (j1 + 1)))
        ELSE JsonFail

\* json.loads(s): [ok, v, i, ws]; ok is FALSE where JSONDecodeError is raised,
\* ws counts the whitespace characters skipped between tokens
json_loads(s) ==
    LET i == SkipWs(s, 1)
        r == ParseValue(s, i)
        j == SkipWs(s, r.i)
    IN  IF StartsWith(s, <<65279>>) THEN JsonFail
        ELSE IF r.ok /\ j = Len(s) + 1
             THEN [r EXCEPT !.ws = r.ws + (i - 1) + (j - r.i)]
        ELSE JsonFail

\* isinstance(v, dict)
IsDict(v) == v.t = "object"

\* key in d, for a dict d
DictHas(d, key) == \E n \in 1..Len(d.members) : d.members[n].k = key

\* d.get(key), for a dict d: the value of the last member with that key,
\* None when there is none; it is d[key] whenever key is in d
DictGet(d, key) ==
    IF DictHas(d, key)
    THEN LET n == CHOOSE m \in 1..Len(d.members) :
                      /\ d.members[m].k = key
                      /\ \A q \in (m + 1)..Len(d.members) : d.members[q].k # key
         IN  d.members[n].v
    ELSE [t |-> "None"]

-----------------------------------------------------------------------------
(* compute_signature, src/main.py:29-31 *)

\* hmac.new(key, msg, hashlib.sha256).hexdigest(): the digest is kept as the
\* term it is computed from, so two digests are equal exactly when key and
\* message are
hmac_sha256_hexdigest(key, msg) == [alg |-> "hmac-sha256", key |-> key, msg |-> msg]

SignaturePrefix == <<115, 104, 97, 50, 53, 54, 61>>   \* "sha256="

\* compute_signature returning the bare hexadecimal digest
compute_signature_without_prefix(secret_, body) ==
    [prefix |-> <<>>,
     hexdigest |-> hmac_sha256_hexdigest(Utf8Encode(secret_), body)]

compute_signature(secret_, body) ==
    [prefix |-> SignaturePrefix,
     hexdigest |-> hmac_sha256_hexdigest(Utf8Encode(secret_), body)]

-----------------------------------------------------------------------------
(* The process environment and build_payload, src/main.py:18-26 *)

EnvNames == {"B12_NAME", "B12_EMAIL", "B12_RESUME_LINK", "B12_REPOSITORY_LINK",
             "B12_ACTION_RUN_LINK", "B12_SIGNING_SECRET"}

\* "os.environ.get(name) or default": an empty value gives way to the default
os_environ_get_or_default(e, name, default) ==
    IF name \in DOMAIN e /\ e[name] # <<>> THEN e[name] ELSE default

\* os.environ.get(name, default)
os_environ_get(e, name, default) == IF name \in DOMAIN e THEN e[name] ELSE default

\* build_payload with a default for the run link, as the other fields have
build_payload_defaulted(e, t) ==
    [raised |-> FALSE,
     key    |-> "",
     value  |-> << <<K_timestamp, iso8601_timestamp(t)>>,
                   <<K_name, os_environ_get(e, "B12_NAME", DefaultName)>>,
                   <<K_email, os_environ_get(e, "B12_EMAIL", DefaultEmail)>>,
                   <<K_resume_link, os_environ_get(e, "B12_RESUME_LINK", DefaultResumeLink)>>,
                   <<K_repository_link,
                     os_environ_get(e, "B12_REPOSITORY_LINK", DefaultRepositoryLink)>>,
                   <<K_action_run_link, os_environ_get(e, "B12_ACTION_RUN_LINK", <<>>)>> >>]

\* build_payload(): the dict in insertion order, or the KeyError that
\* os.environ["B12_ACTION_RUN_LINK"] raises, with the key it names
build_payload(e, t) ==
    IF "B12_ACTION_RUN_LINK" \notin DOMAIN e
    THEN [raised |-> TRUE, key |-> "B12_ACTION_RUN_LINK", value |-> <<>>]
    ELSE [raised |-> FALSE,
          key    |-> "",
          value  |-> << <<K_timestamp, iso8601_timestamp(t)>>,
                        <<K_name, os_environ_get(e, "B12_NAME", DefaultName)>>,
                        <<K_email, os_environ_get(e, "B12_EMAIL", DefaultEmail)>>,
                        <<K_resume_link,
                          os_environ_get(e, "B12_RESUME_LINK", DefaultResumeLink)>>,
                        <<K_repository_link,
                          os_environ_get(e, "B12_REPOSITORY_LINK", DefaultRepositoryLink)>>,
                        <<K_action_run_link, e["B12_ACTION_RUN_LINK"]>> >>]

-----------------------------------------------------------------------------
(* main, src/main.py:34-91 *)

\* "not secret", testing for the empty string alone
not_secret_empty_only(s) == s = <<>>

\* "not secret": None and the empty string are both falsy
not_secret(s) == s = None \/ s = <<>>

\* json.dumps with its default separators and key order
serialize_default_separators(p) == json_dumps(p, <<44, 32>>, <<58, 32>>, FALSE)

\* json.dumps(payload, separators=(",", ":"), sort_keys=True, ensure_ascii=False)
serialize(p) == json_dumps(p, <<44>>, <<58>>, TRUE)

\* a line written by print(): the fixed text and the values formatted into it
Line(text, arg) == [text |-> text, arg |-> arg]

\* the traceback the interpreter prints for an exception nobody catches
Traceback(exc) == Line("Traceback (most recent call last)", <<exc>>)

\* urllib.request.Request(url=..., data=..., method="POST", headers=...)
Request(sig, data) ==
    [url     |-> "https://b12.io/apply/submission",
     method  |-> "POST",
     data    |-> data,
     headers |-> ("Content-Type" :> <<"application/json; charset=utf-8">>)
                 @@ ("X-Signature-256" :> <<sig>>)]

\* the success test with the receipt check left out
is_success_without_receipt(v) ==
    /\ IsDict(v)
    /\ DictGet(v, K_success).t = "true"

\* parsed.get("success") is True and "receipt" in parsed, for a dict
is_success(v) ==
    /\ IsDict(v)
    /\ DictGet(v, K_success).t = "true"
    /\ DictHas(v, K_receipt)

\* the HTTPError handler, printing the status line alone
http_error_lines_without_body(r) ==
    <<Line("HTTP error: ", <<r.code, r.reason>>)>>

\* what the HTTPError handler prints: the status line, then the error body
\* unless reading or decoding it raises
http_error_lines(r) ==
    <<Line("HTTP error: ", <<r.code, r.reason>>)>>
    \o (IF r.readable /\ Utf8Decode(r.body).ok
        THEN <<Line("", <<Utf8Decode(r.body).s>>)>>
        ELSE <<>>)

\* a second attempt after a failed one
requests_with_retry(w, req, r) ==
    IF r.kind = "ok" THEN Append(w, req) ELSE Append(Append(w, req), req)

\* the requests urlopen(req) has put on the wire when it returns or raises:
\* one, unless the connection failed before anything was sent
requests_sent(w, req, r) == IF r.sent THEN Append(w, req) ELSE w

SecretMissing ==
    /\ pc = "start"
    /\ LET s == os_environ_get(env, "B12_SIGNING_SECRET", None) IN
       /\ not_secret(s)
       /\ secret' = s
    /\ stderr' = Append(stderr, Line("Missing B12_SIGNING_SECRET", <<>>))
    /\ exit_code' = 1
    /\ pc' = "exited"
    /\ stages' = Append(stages, "Failure")
    /\ UNCHANGED <<env, now, payload, body_str, body_bytes, signature, wire, reply,
                   resp_body, parsed, stdout>>

SecretOk ==
    /\ pc = "start"
    /\ LET s == os_environ_get(env, "B12_SIGNING_SECRET", None) IN
       /\ ~not_secret(s)
       /\ secret' = s
    /\ pc' = "build"
    /\ stages' = Append(stages, "ConfigLoaded")
    /\ UNCHANGED <<env, now, payload, body_str, body_bytes, signature, wire, reply,
                   resp_body, parsed, stdout, stderr, exit_code>>

BuildPayloadKeyError ==
    /\ pc = "build"
    /\ LET b == build_payload(env, now) IN
       /\ b.raised
       /\ stderr' = Append(stderr,
                       Line("Missing required environment variable: ", <<b.key>>))
    /\ exit_code' = 1
    /\ pc' = "exited"
    /\ stages' = Append(stages, "Failure")
    /\ UNCHANGED <<env, now, secret, payload, body_str, body_bytes, signature, wire,
                   reply, resp_body, parsed, stdout>>

BuildPayloadOk ==
    /\ pc = "build"
    /\ LET b == build_payload(env, now) IN
       /\ ~b.raised
       /\ payload' = b.value
    /\ pc' = "serialize"
    /\ stages' = Append(stages, "PayloadBuilt")
    /\ UNCHANGED <<env, now, secret, body_str, body_bytes, signature, wire, reply,
                   resp_body, parsed, stdout, stderr, exit_code>>

\* body_str.encode("utf-8") raises UnicodeEncodeError, which nothing catches
SerializeRaises ==
    /\ pc = "serialize"
    /\ Utf8EncodeRaises(serialize(payload))
    /\ body_str' = serialize(payload)
    /\ stderr' = Append(stderr, Traceback("UnicodeEncodeError"))
    /\ exit_code' = 1
    /\ pc' = "exited"
    /\ stages' = Append(stages, "Failure")
    /\ UNCHANGED <<env, now, secret, payload, body_bytes, signature, wire, reply,
                   resp_body, parsed, stdout>>

SerializeOk ==
    /\ pc = "serialize"
    /\ ~Utf8EncodeRaises(serialize(payload))
    /\ body_str' = serialize(payload)
    /\ body_bytes' = Utf8Encode(serialize(payload))
    /\ pc' = "sign"
    /\ stages' = Append(stages, "Serialized")
    /\ UNCHANGED <<env, now, secret, payload, signature, wire, reply, resp_body,
                   parsed, stdout, stderr, exit_code>>

\* secret.encode("utf-8") raises UnicodeEncodeError, which nothing catches
SignRaises ==
    /\ pc = "sign"
    /\ Utf8EncodeRaises(secret)
    /\ stderr' = Append(stderr, Traceback("UnicodeEncodeError"))
    /\ exit_code' = 1
    /\ pc' = "exited"
    /\ stages' = Append(stages, "Failure")
    /\ UNCHANGED <<env, now, secret, payload, body_str, body_bytes, signature, wire,
                   reply, resp_body, parsed, stdout>>

SignOk ==
    /\ pc = "sign"
    /\ ~Utf8EncodeRaises(secret)
    /\ signature' = compute_signature(secret, body_bytes)
    /\ pc' = "send"
    /\ stages' = Append(stages, "Signed")
    /\ UNCHANGED <<env, now, secret, payload, body_str, body_bytes, wire, reply,
                   resp_body, parsed, stdout, stderr, exit_code>>

-----------------------------------------------------------------------------
(* What the network can answer to the one request *)

BodySuccess == <<123, 34, 115, 117, 99, 99, 101, 115, 115, 34, 58, 32, 116, 114, 117, 101, 44, 32, 34, 114, 101, 99, 101, 105, 112, 116, 34, 58, 32, 34, 65, 66, 67, 49, 50, 51, 34, 125>>
    \* {"success": true, "receipt": "ABC123"}
BodyNullReceipt == <<123, 34, 115, 117, 99, 99, 101, 115, 115, 34, 58, 116, 114, 117, 101, 44, 34, 114, 101, 99, 101, 105, 112, 116, 34, 58, 110, 117, 108, 108, 125>>
    \* {"success":true,"receipt":null}
BodySuccessFalse == <<123, 34, 115, 117, 99, 99, 101, 115, 115, 34, 58, 32, 102, 97, 108, 115, 101, 125>>
    \* {"success": false}
BodyNoReceipt == <<123, 34, 115, 117, 99, 99, 101, 115, 115, 34, 58, 116, 114, 117, 101, 125>>
    \* {"success":true}
BodyNoSuccess == <<123, 34, 114, 101, 99, 101, 105, 112, 116, 34, 58, 34, 65, 66, 67, 49, 50, 51, 34, 125>>
    \* {"receipt":"ABC123"}
BodySuccessOne == <<123, 34, 115, 117, 99, 99, 101, 115, 115, 34, 58, 49, 44, 34, 114, 101, 99, 101, 105, 112, 116, 34, 58, 34, 65, 66, 67, 49, 50, 51, 34, 125>>
    \* {"success":1,"receipt":"ABC123"}
BodySuccessString == <<123, 34, 115, 117, 99, 99, 101, 115, 115, 34, 58, 34, 116, 114, 117, 101, 34, 44, 34, 114, 101, 99, 101, 105, 112, 116, 34, 58, 34, 65, 66, 67, 49, 50, 51, 34, 125>>
    \* {"success":"true","receipt":"ABC123"}
BodyLastKeyTrue == <<123, 34, 115, 117, 99, 99, 101, 115, 115, 34, 58, 102, 97, 108, 115, 101, 44, 34, 115, 117, 99, 99, 101, 115, 115, 34, 58, 116, 114, 117, 101, 44, 34, 114, 101, 99, 101, 105, 112, 116, 34, 58, 123, 34, 105, 100, 34, 58, 55, 125, 125>>
    \* {"success":false,"success":true,"receipt":{"id":7}}
BodyLastKeyFalse == <<123, 34, 115, 117, 99, 99, 101, 115, 115, 34, 58, 116, 114, 117, 101, 44, 34, 115, 117, 99, 99, 101, 115, 115, 34, 58, 102, 97, 108, 115, 101, 44, 34, 114, 101, 99, 101, 105, 112, 116, 34, 58, 34, 65, 66, 67, 49, 50, 51, 34, 125>>
    \* {"success":true,"success":false,"receipt":"ABC123"}
BodyEmptyArray == <<91, 93>>
    \* []
BodyArrayOfSuccess == <<91, 123, 34, 115, 117, 99, 99, 101, 115, 115, 34, 58, 116, 114, 117, 101, 44, 34, 114, 101, 99, 101, 105, 112, 116, 34, 58, 34, 65, 66, 67, 49, 50, 51, 34, 125, 93>>
    \* [{"success":true,"receipt":"ABC123"}]
BodyString == <<34, 111, 107, 34>>
    \* "ok"
BodyNumber == <<55>>
    \* 7
BodyTrue == <<116, 114, 117, 101>>
    \* true
BodyNull == <<110, 117, 108, 108>>
    \* null
BodyNotJson == <<110, 111, 116, 45, 106, 115, 111, 110>>
    \* not-json
BodyTrailing == <<123, 34, 115, 117, 99, 99, 101, 115, 115, 34, 58, 116, 114, 117, 101, 44, 34, 114, 101, 99, 101, 105, 112, 116, 34, 58, 34, 233, 34, 125, 120>>
    \* {"success":true,"receipt":"é"}x
BodyNonAscii == <<123, 34, 115, 117, 99, 99, 101, 115, 115, 34, 58, 116, 114, 117, 101, 44, 34, 114, 101, 99, 101, 105, 112, 116, 34, 58, 34, 233, 34, 125>>
    \* {"success":true,"receipt":"é"}
BodyEmpty == <<>>

\* the bodies a 2xx response may carry, as the bytes on the wire; the last
\* one is not UTF-8
ResponseBodies ==
    {Utf8Encode(b) : b \in {BodySuccess, BodyNullReceipt, BodySuccessFalse, BodyNoReceipt,
                            BodyNoSuccess, BodySuccessOne, BodySuccessString,
                            BodyLastKeyTrue, BodyLastKeyFalse, BodyEmptyArray,
                            BodyArrayOfSuccess, BodyString, BodyNumber, BodyTrue, BodyNull,
                            BodyNotJson, BodyTrailing, BodyNonAscii, BodyEmpty}}
    \cup {<<255>>}

\* the bodies an error response may carry
ErrorBodies == {Utf8Encode(BodySuccess), Utf8Encode(BodyNotJson), <<>>, <<255>>}

Reply(kind, sent, code, reason, readable, body) ==
    [kind |-> kind, sent |-> sent, code |-> code, reason |-> reason,
     readable |-> readable, body |-> body]

NoReply == Reply("none", FALSE, 0, "", FALSE, <<>>)

\* urlopen returns a response with a 2xx status
OkReplies ==
    {Reply("ok", TRUE, 200, "OK", TRUE, b) : b \in ResponseBodies}
    \cup {Reply("ok", TRUE, 201, "Created", TRUE, Utf8Encode(BodySuccess))}

\* urlopen raises HTTPError: any other final status; e.read() may itself fail
HTTPErrorReplies ==
    {Reply("http_error", TRUE, 500, "Internal Server Error", TRUE, b) : b \in ErrorBodies}
    \cup {Reply("http_error", TRUE, 404, "Not Found", TRUE, Utf8Encode(BodySuccess)),
          Reply("http_error", TRUE, 307, "Temporary Redirect", TRUE, <<>>),
          Reply("http_error", TRUE, 500, "Internal Server Error", FALSE, <<>>)}

\* urlopen raises URLError: the connection failed before the request was
\* sent, or sending it failed
URLErrorReplies ==
    {Reply("url_error", sent, 0, "<urlopen error>", FALSE, <<>>) : sent \in BOOLEAN}

\* urlopen or resp.read() raises something main() does not catch (the peer
\* closed the connection before or while answering)
OtherErrorReplies ==
    {Reply("raises", TRUE, 0, exc, FALSE, <<>>) :
        exc \in {"http.client.RemoteDisconnected", "http.client.IncompleteRead"}}

UrlopenOk ==
    /\ pc = "send"
    /\ \E r \in OkReplies :
        /\ Utf8Decode(r.body).ok
        /\ reply' = r
        /\ wire' = requests_sent(wire, Request(signature, body_bytes), r)
        /\ resp_body' = Utf8Decode(r.body).s
    /\ pc' = "parse"
    /\ stages' = stages \o <<"Sent", "ResponseReceived">>
    /\ UNCHANGED <<env, now, secret, payload, body_str, body_bytes, signature, parsed,
                   stdout, stderr, exit_code>>

\* resp.read().decode("utf-8") raises UnicodeDecodeError, which nothing catches
UrlopenUndecodable ==
    /\ pc = "send"
    /\ \E r \in OkReplies :
        /\ ~Utf8Decode(r.body).ok
        /\ reply' = r
        /\ wire' = requests_sent(wire, Request(signature, body_bytes), r)
    /\ stderr' = Append(stderr, Traceback("UnicodeDecodeError"))
    /\ exit_code' = 1
    /\ pc' = "exited"
    /\ stages' = stages \o <<"Sent", "Failure">>
    /\ UNCHANGED <<env, now, secret, payload, body_str, body_bytes, signature, resp_body,
                   parsed, stdout>>

UrlopenHTTPError ==
    /\ pc = "send"
    /\ \E r \in HTTPErrorReplies :
        /\ reply' = r
        /\ wire' = requests_sent(wire, Request(signature, body_bytes), r)
        /\ stderr' = stderr \o http_error_lines(r)
    /\ exit_code' = 1
    /\ pc' = "exited"
    /\ stages' = stages \o <<"Sent", "Failure">>
    /\ UNCHANGED <<env, now, secret, payload, body_str, body_bytes, signature, resp_body,
                   parsed, stdout>>

UrlopenURLError ==
    /\ pc = "send"
    /\ \E r \in URLErrorReplies :
        /\ reply' = r
        /\ wire' = requests_sent(wire, Request(signature, body_bytes), r)
        /\ stderr' = Append(stderr, Line("Request failed: ", <<r.reason>>))
        /\ stages' = stages \o (IF r.sent THEN <<"Sent", "Failure">> ELSE <<"Failure">>)
    /\ exit_code' = 1
    /\ pc' = "exited"
    /\ UNCHANGED <<env, now, secret, payload, body_str, body_bytes, signature, resp_body,
                   parsed, stdout>>

UrlopenRaises ==
    /\ pc = "send"
    /\ \E r \in OtherErrorReplies :
        /\ reply' = r
        /\ wire' = requests_sent(wire, Request(signature, body_bytes), r)
        /\ stderr' = Append(stderr, Traceback(r.reason))
    /\ exit_code' = 1
    /\ pc' = "exited"
    /\ stages' = stages \o <<"Sent", "Failure">>
    /\ UNCHANGED <<env, now, secret, payload, body_str, body_bytes, signature, resp_body,
                   parsed, stdout>>

ParseDecodeError ==
    /\ pc = "parse"
    /\ ~json_loads(resp_body).ok
    /\ stderr' = stderr \o <<Line("Invalid JSON response from server", <<>>),
                             Line("", <<resp_body>>)>>
    /\ exit_code' = 1
    /\ pc' = "exited"
    /\ stages' = Append(stages, "Failure")
    /\ UNCHANGED <<env, now, secret, payload, body_str, body_bytes, signature, wire,
                   reply, resp_body, parsed, stdout>>

ParseOk ==
    /\ pc = "parse"
    /\ json_loads(resp_body).ok
    /\ parsed' = json_loads(resp_body).v
    /\ pc' = "validate"
    /\ UNCHANGED <<env, now, secret, payload, body_str, body_bytes, signature, wire,
                   reply, resp_body, stdout, stderr, exit_code, stages>>

\* parsed is no dict: parsed.get raises AttributeError, which nothing catches
ValidateRaises ==
    /\ pc = "validate"
    /\ ~IsDict(parsed)
    /\ stderr' = Append(stderr, Traceback("AttributeError"))
    /\ exit_code' = 1
    /\ pc' = "exited"
    /\ stages' = Append(stages, "Failure")
    /\ UNCHANGED <<env, now, secret, payload, body_str, body_bytes, signature, wire,
                   reply, resp_body, parsed, stdout>>

ValidateSuccess ==
    /\ pc = "validate"
    /\ IsDict(parsed)
    /\ is_success(parsed)
    /\ stdout' = Append(stdout, Line("Submission receipt: ", <<DictGet(parsed, K_receipt)>>))
    /\ exit_code' = 0
    /\ pc' = "exited"
    /\ stages' = Append(stages, "Success")
    /\ UNCHANGED <<env, now, secret, payload, body_str, body_bytes, signature, wire,
                   reply, resp_body, parsed, stderr>>

ValidateFailure ==
    /\ pc = "validate"
    /\ IsDict(parsed)
    /\ ~is_success(parsed)
    /\ stderr' = stderr \o <<Line("Submission failed or unexpected response", <<>>),
                             Line("", <<resp_body>>)>>
    /\ exit_code' = 1
    /\ pc' = "exited"
    /\ stages' = Append(stages, "Failure")
    /\ UNCHANGED <<env, now, secret, payload, body_str, body_bytes, signature, wire,
                   reply, resp_body, parsed, stdout>>

-----------------------------------------------------------------------------
(* Initial states and specifications *)

\* environment values: empty, plain with a non-ASCII letter, and a byte that
\* was not UTF-8 in the environment block (os.environ decodes it to a lone
\* surrogate)
EnvVals == {<<>>, <<107, 233>>, <<56448>>}

\* the values explored for each name
EnvValsOf(name) ==
    IF name \in {"B12_SIGNING_SECRET", "B12_ACTION_RUN_LINK", "B12_NAME"} THEN EnvVals
    ELSE IF name = "B12_EMAIL" THEN {<<>>, <<107, 233>>}
    ELSE {<<107, 233>>}

\* every environment: any subset of the names set, each to one of its values
Environments ==
    UNION {{e \in [D -> EnvVals] : \A n \in D : e[n] \in EnvValsOf(n)} : D \in SUBSET EnvNames}

Clock(h, m, s, us) ==
    [year |-> 2026, month |-> 11, day |-> 4, hour |-> h, minute |-> m, second |-> s,
     microsecond |-> us]

Clocks == {Clock(7, 30, 0, 0), Clock(23, 59, 59, 999999)}

InitLocals ==
    /\ pc = "start"
    /\ secret = None
    /\ payload = None
    /\ body_str = None
    /\ body_bytes = None
    /\ signature = Unbound
    /\ wire = <<>>
    /\ reply = NoReply
    /\ resp_body = None
    /\ parsed = Unbound
    /\ stdout = <<>>
    /\ stderr = <<>>
    /\ exit_code = -1
    /\ stages = <<>>

Init ==
    /\ env \in Environments
    /\ now \in Clocks
    /\ InitLocals

Next ==
    \/ SecretMissing
    \/ SecretOk
    \/ BuildPayloadKeyError
    \/ BuildPayloadOk
    \/ SerializeRaises
    \/ SerializeOk
    \/ SignRaises
    \/ SignOk
    \/ UrlopenOk
    \/ UrlopenUndecodable
    \/ UrlopenHTTPError
    \/ UrlopenURLError
    \/ UrlopenRaises
    \/ ParseDecodeError
    \/ ParseOk
    \/ ValidateRaises
    \/ ValidateSuccess
    \/ ValidateFailure

Spec == Init /\ [][Next]_vars

(* Serializer specification: one payload variable at a time ranges over    *)
(* every text up to MaxLen over an alphabet of the characters the encoder  *)
(* treats differently                                                      *)

\* quote, backslash, line feed, U+0001, "a", e-acute, an emoji outside the
\* basic plane, a lone surrogate
SerAlphabet == {34, 92, 10, 1, 97, 233, 128512, 56448}

Texts(n) == UNION {[1..k -> SerAlphabet] : k \in 0..n}

PayloadEnvNames == EnvNames \ {"B12_SIGNING_SECRET"}

InitSer ==
    /\ \E name \in PayloadEnvNames, v \in Texts(MaxLen), others \in BOOLEAN :
          env = (name :> v)
                @@ [n \in (IF others THEN PayloadEnvNames
                           ELSE {"B12_ACTION_RUN_LINK"}) |-> <<107, 233>>]
                @@ ("B12_SIGNING_SECRET" :> <<107, 233>>)
    /\ now = Clock(7, 30, 0, 0)
    /\ InitLocals

NextSer ==
    \/ SecretOk
    \/ BuildPayloadOk
    \/ SerializeRaises
    \/ SerializeOk

SpecSer == InitSer /\ [][NextSer]_vars

(* Timestamp specification: the clock ranges over instants on both sides   *)
(* of every millisecond and second boundary                                *)

Micros == {ms * 1000 + r : ms \in {0, 1, 9, 10, 99, 100, 123, 999}, r \in {0, 1, 499, 500, 999}}

ClocksTime == {Clock(h, 5, s, us) : h \in {0, 23}, s \in {0, 59}, us \in Micros}

InitTime ==
    /\ env = ("B12_SIGNING_SECRET" :> <<107, 233>>) @@ ("B12_ACTION_RUN_LINK" :> <<107, 233>>)
    /\ now \in ClocksTime
    /\ InitLocals

NextTime ==
    \/ SecretOk
    \/ BuildPayloadOk

SpecTime == InitTime /\ [][NextTime]_vars

-----------------------------------------------------------------------------
(* Properties *)

Exited == pc = "exited"

\* s.endswith(p)
EndsWith(s, p) == Len(p) <= Len(s) /\ SubSeq(s, Len(s) - Len(p) + 1, Len(s)) = p

\* p in s
Contains(s, p) == \E i \in 1..(Len(s) - Len(p) + 1) : SubSeq(s, i, i + Len(p) - 1) = p

\* the value of a run of decimal digits
RECURSIVE DigitsValue(_)
DigitsValue(s) ==
    IF s = <<>> THEN 0 ELSE 10 * DigitsValue(SubSeq(s, 1, Len(s) - 1)) + (s[Len(s)] - 48)

IsSet(name) == name \in DOMAIN env

\* print(body, file=stream) has happened
PrintedRaw(stream, body) ==
    \E i \in 1..Len(stream) : stream[i].text = "" /\ stream[i].arg = <<body>>

\* print(text, file=stream) has happened, whatever was formatted into it
PrintedText(stream, text) == \E i \in 1..Len(stream) : stream[i].text = text

\* nothing from build_payload on has run
NothingBuilt ==
    /\ payload = None
    /\ body_str = None
    /\ body_bytes = None
    /\ signature = Unbound
    /\ wire = <<>>
    /\ reply = NoReply
    /\ resp_body = None

\* C1: with B12_SIGNING_SECRET unset the run is either at its first step,
\* where the missing-secret exit is the step it can take, or it has exited
\* with code 1 having printed exactly the missing-secret message to standard
\* error; no payload was built, serialized or signed and no request was
\* sent, whatever else is set.
C1_MissingSecretExits ==
    ~IsSet("B12_SIGNING_SECRET") =>
        /\ pc \in {"start", "exited"}
        /\ pc = "start" => ENABLED SecretMissing /\ ~ENABLED SecretOk
        /\ NothingBuilt
        /\ stdout = <<>>
        /\ Exited => /\ exit_code = 1
                     /\ stderr = <<Line("Missing B12_SIGNING_SECRET", <<>>)>>

\* C1 witness: the secret and the run link are both unset and the run has
\* exited reporting the secret.
C1_Witness ==
    /\ ~IsSet("B12_SIGNING_SECRET")
    /\ ~IsSet("B12_ACTION_RUN_LINK")
    /\ Exited
    /\ PrintedText(stderr, "Missing B12_SIGNING_SECRET")

\* the response the run received is a JSON object whose success member is
\* the boolean true and which has a receipt key
ConfirmedSuccess ==
    /\ resp_body # None
    /\ LET r == json_loads(resp_body) IN
       /\ r.ok
       /\ r.v.t = "object"
       /\ \E n \in 1..Len(r.v.members) :
             /\ r.v.members[n].k = K_success
             /\ r.v.members[n].v.t = "true"
             /\ \A m \in (n + 1)..Len(r.v.members) : r.v.members[m].k # K_success
       /\ \E n \in 1..Len(r.v.members) : r.v.members[n].k = K_receipt

C3_RawBodyOnEveryFailure ==
    (Exited /\ resp_body # None /\ exit_code # 0) => PrintedRaw(stderr, resp_body)

\* the payload has exactly the six fields, each bound to a text
AllSixFields ==
    /\ Len(payload) = 6
    /\ {payload[i][1] : i \in 1..6} =
          {K_timestamp, K_name, K_email, K_resume_link, K_repository_link,
           K_action_run_link}
    /\ \A i \in 1..6 : payload[i][2] # None

\* the run failed with the missing-configuration error naming the run link
MissingRunLinkReported ==
    /\ exit_code = 1
    /\ stderr = <<Line("Missing required environment variable: ",
                       <<"B12_ACTION_RUN_LINK">>)>>
    /\ wire = <<>>
    /\ body_str = None

\* C4 as stated: with B12_SIGNING_SECRET set and B12_ACTION_RUN_LINK absent
\* the run ends with the missing-configuration error naming
\* B12_ACTION_RUN_LINK, exit code 1 and no request; and a payload is
\* serialized only when all six fields are present and non-null.
C4_AsStated ==
    /\ (IsSet("B12_SIGNING_SECRET") /\ ~IsSet("B12_ACTION_RUN_LINK"))
          => /\ wire = <<>>
             /\ Exited => MissingRunLinkReported
    /\ body_str # None => AllSixFields /\ IsSet("B12_ACTION_RUN_LINK")

\* C4 amended: the same, for B12_SIGNING_SECRET set to a non-empty value.
C4_MissingRunLink ==
    /\ (/\ IsSet("B12_SIGNING_SECRET")
        /\ env["B12_SIGNING_SECRET"] # <<>>
        /\ ~IsSet("B12_ACTION_RUN_LINK"))
          => /\ wire = <<>>
             /\ pc \in {"start", "build", "exited"}
             /\ Exited => MissingRunLinkReported
    /\ body_str # None => AllSixFields /\ IsSet("B12_ACTION_RUN_LINK")

\* C4 witness: a non-empty secret, no run link, and the run has exited
\* naming the run link.
C4_Witness ==
    /\ IsSet("B12_SIGNING_SECRET")
    /\ env["B12_SIGNING_SECRET"] # <<>>
    /\ ~IsSet("B12_ACTION_RUN_LINK")
    /\ Exited
    /\ MissingRunLinkReported

StageOrder ==
    <<"ConfigLoaded", "PayloadBuilt", "Serialized", "Signed", "Sent", "ResponseReceived">>

\* C5: at most one request is sent and it is a POST; the stages completed
\* are an initial part of the fixed order, closed by Success (after all of
\* them) or Failure exactly when the run is over; and once the run is over
\* no step is possible, so nothing is retried or resumed.
C5_SingleAttemptInOrder ==
    /\ Len(wire) <= 1
    /\ \A i \in 1..Len(wire) : wire[i].method = "POST"
    /\ \E k \in 0..Len(StageOrder) :
          \/ ~Exited /\ stages = SubSeq(StageOrder, 1, k)
          \/ Exited /\ stages = SubSeq(StageOrder, 1, k) \o <<"Failure">>
          \/ Exited /\ k = Len(StageOrder) /\ stages = StageOrder \o <<"Success">>
    /\ Exited => ~ENABLED Next
    /\ (Exited /\ reply.kind \in {"http_error", "url_error", "raises"})
          => /\ Len(wire) = (IF reply.sent THEN 1 ELSE 0)
             /\ resp_body = None
             /\ parsed = Unbound

\* C5 witness: a run that ended on an HTTP error after its one request.
C5_Witness ==
    /\ Exited
    /\ reply.kind = "http_error"
    /\ Len(wire) = 1
    /\ stages = SubSeq(StageOrder, 1, 5) \o <<"Failure">>

\* C6: the request sent carries X-Signature-256 = "sha256=" followed by the
\* HMAC-SHA256, keyed with the UTF-8 bytes of B12_SIGNING_SECRET as it was at
\* start, of exactly the bytes sent as the body; and those bytes are the one
\* serialization of the payload held in body_bytes.
C6_SignatureCoversSentBody ==
    \A i \in 1..Len(wire) :
        /\ wire[i].headers["X-Signature-256"] =
              <<[prefix |-> SignaturePrefix,
                 hexdigest |-> hmac_sha256_hexdigest(
                                   Utf8Encode(env["B12_SIGNING_SECRET"]), wire[i].data)]>>
        /\ wire[i].data = body_bytes
        /\ wire[i].data = Utf8Encode(body_str)
        /\ wire[i].headers["Content-Type"] = <<"application/json; charset=utf-8">>

\* C6 witness: a request was sent and answered.
C6_Witness ==
    /\ Len(wire) = 1
    /\ reply.kind = "ok"
    /\ Exited

\* C7: the timestamp of the payload is the instant in the form
\* YYYY-MM-DDTHH:MM:SS.mmmZ: it ends in Z, holds no "+00:00", and its
\* sub-second digits are the three digits of floor(microsecond / 1000).
C7_MillisecondTimestamp ==
    payload # None =>
        LET ts == payload[1][2] IN
        /\ EndsWith(ts, ZuluText)
        /\ ~Contains(ts, UtcOffsetText)
        /\ Len(ts) = 24
        /\ ts[20] = 46
        /\ \A i \in 21..23 : IsDigit(ts[i])
        /\ DigitsValue(SubSeq(ts, 21, 23)) = now.microsecond \div 1000

\* What the code does instead: the timestamp ends in Z and holds no "+00:00";
\* it has no fraction at all when the instant is within the first
\* millisecond of a second, and otherwise six fraction digits, the
\* truncated milliseconds followed by 000.
TimestampAsComputed ==
    payload # None =>
        LET ts == payload[1][2]
            ms == now.microsecond \div 1000
        IN  /\ EndsWith(ts, ZuluText)
            /\ ~Contains(ts, UtcOffsetText)
            /\ IF ms = 0 THEN Len(ts) = 20
               ELSE /\ Len(ts) = 27
                    /\ ts[20] = 46
                    /\ SubSeq(ts, 21, 26) = Digits(ms, 3) \o <<48, 48, 48>>

\* the dict with its items in reverse insertion order
RECURSIVE Reversed(_)
Reversed(s) == IF s = <<>> THEN <<>> ELSE Append(Reversed(Tail(s)), Head(s))

\* C8: the bytes serialized decode and parse back to exactly the payload's
\* fields and values, with the keys in ascending order and no whitespace
\* between tokens; and serializing the same fields again, inserted in
\* another order, gives the same text.
C8_CanonicalRoundTrip ==
    body_bytes # None =>
        LET d == Utf8Decode(body_bytes)
            r == json_loads(d.s)
        IN  /\ d.ok
            /\ d.s = body_str
            /\ r.ok
            /\ r.ws = 0
            /\ r.v.t = "object"
            /\ Len(r.v.members) = Len(payload)
            /\ \A i \in 1..Len(r.v.members) :
                  \E j \in 1..Len(payload) :
                      /\ r.v.members[i].k = payload[j][1]
                      /\ r.v.members[i].v.t = "string"
                      /\ r.v.members[i].v.s = payload[j][2]
            /\ \A i \in 1..(Len(r.v.members) - 1) :
                  StrLess(r.v.members[i].k, r.v.members[i + 1].k)
            /\ serialize(payload) = body_str
            /\ serialize(Reversed(payload)) = body_str
            /\ serialize(Tail(payload) \o <<Head(payload)>>) = body_str

\* C8 witness: a payload serialized with a name made of a quote and a
\* non-ASCII letter.
C8_Witness ==
    /\ body_bytes # None
    /\ IsSet("B12_NAME")
    /\ env["B12_NAME"] = <<34, 233>>

\* C9: when the request ends with a non-2xx status the run exits 1 having
\* printed the status code and reason and then the error body, if it could
\* be read and decoded, to standard error; the response is never parsed or
\* validated and nothing is written to standard output.
C9_HTTPErrorIsReported ==
    (Exited /\ reply.kind = "http_error") =>
        /\ exit_code = 1
        /\ Len(stderr) >= 1
        /\ stderr[1].text = "HTTP error: "
        /\ stderr[1].arg = <<reply.code, reply.reason>>
        /\ IF reply.readable /\ Utf8Decode(reply.body).ok
           THEN Len(stderr) = 2 /\ PrintedRaw(stderr, Utf8Decode(reply.body).s)
           ELSE Len(stderr) = 1
        /\ stdout = <<>>
        /\ resp_body = None
        /\ parsed = Unbound
        /\ Len(wire) = 1

\* C9 witness: an HTTP 500 whose body is {"success": true, "receipt": "ABC123"}.
C9_Witness ==
    /\ Exited
    /\ reply.kind = "http_error"
    /\ reply.code = 500
    /\ reply.body = Utf8Encode(BodySuccess)

\* the value the payload holds for a key
PayloadValue(key) ==
    LET i == CHOOSE j \in 1..Len(payload) : payload[j][1] = key IN payload[i][2]

\* each optional field is the variable's value when it is set, the literal
\* default when it is not
OptionalFieldsVerbatim ==
    payload # None =>
        /\ PayloadValue(K_name) =
              (IF IsSet("B12_NAME") THEN env["B12_NAME"] ELSE DefaultName)
        /\ PayloadValue(K_email) =
              (IF IsSet("B12_EMAIL") THEN env["B12_EMAIL"] ELSE DefaultEmail)
        /\ PayloadValue(K_resume_link) =
              (IF IsSet("B12_RESUME_LINK") THEN env["B12_RESUME_LINK"]
               ELSE DefaultResumeLink)
        /\ PayloadValue(K_repository_link) =
              (IF IsSet("B12_REPOSITORY_LINK") THEN env["B12_REPOSITORY_LINK"]
               ELSE DefaultRepositoryLink)

\* the run ended on a configuration error: before anything was built
FailedAtConfiguration == Exited /\ payload = None

\* C10 as stated: the four optional fields are the value or the default;
\* and with the secret set, the run fails at configuration only if
\* B12_ACTION_RUN_LINK is absent.
C10_AsStated ==
    /\ OptionalFieldsVerbatim
    /\ (IsSet("B12_SIGNING_SECRET") /\ FailedAtConfiguration)
          => ~IsSet("B12_ACTION_RUN_LINK")

\* C10 amended: the same, for the secret set to a non-empty value; and then
\* the run does fail at configuration if B12_ACTION_RUN_LINK is absent.
C10_DefaultsAndRequired ==
    /\ OptionalFieldsVerbatim
    /\ (IsSet("B12_SIGNING_SECRET") /\ env["B12_SIGNING_SECRET"] # <<>>)
          => /\ FailedAtConfiguration => ~IsSet("B12_ACTION_RUN_LINK")
             /\ (Exited /\ ~IsSet("B12_ACTION_RUN_LINK")) => FailedAtConfiguration

\* C10 witness: a payload built with the name set to the empty string, the
\* email unset and the resume link set.
C10_Witness ==
    /\ payload # None
    /\ IsSet("B12_NAME")
    /\ env["B12_NAME"] = <<>>
    /\ ~IsSet("B12_EMAIL")
    /\ IsSet("B12_RESUME_LINK")
    /\ PayloadValue(K_name) = <<>>
    /\ PayloadValue(K_email) = DefaultEmail

=============================================================================
